---- MODULE Spec2Model ----
(***************************************************************************)
(* The storage facade of the student/teacher portal (src/src/data/         *)
(* storage.js): two module-level arrays of record objects, the CRUD        *)
(* functions over them, and the callers that hold the values they return.  *)
(*                                                                         *)
(* JavaScript values are modelled as follows.                              *)
(*   - A string is a sequence of one-character strings, so that slice,     *)
(*     toLowerCase and includes are computed and not assumed.              *)
(*   - An object is a function from its own property names to values; a    *)
(*     property that is absent (undefined) is absent from the DOMAIN.      *)
(*   - Objects and arrays that can be shared live in `heap`, a sequence    *)
(*     of cells; an address is an index into it.  A record cell is         *)
(*     [k |-> "rec", f |-> properties], an array-of-strings cell is        *)
(*     [k |-> "arr", e |-> elements].  A property that holds an array      *)
(*     holds [ref |-> address]; a malformed (non-array) specialization is  *)
(*     [str |-> string].                                                   *)
(*   - `students` and `teachers` are the module-level arrays: sequences    *)
(*     of addresses of record cells.                                       *)
(***************************************************************************)
EXTENDS Integers, Sequences, FiniteSets, TLC

VARIABLES
    students,   \* storage.js:6   the live binding `students`
    teachers,   \* storage.js:7   the live binding `teachers`
    heap,       \* the objects reachable from the arrays and from the caller
    store,      \* localStorage: the durable key-value slots
    last,       \* the last facade call: its arguments, its result, and what
                \* the caller did to the values it holds since
    focus,      \* the collection whose record operations this behaviour runs
    exported,   \* the object the last exportData returned, kept by the caller
    app,        \* App.jsx: the component's state, the address bar, and the
                \* history of the session events
    listing,    \* StudentsListView.jsx: the component's state
    signup      \* SignupForm: the component's state

vars == <<students, teachers, heap, store, last, focus, exported, app, listing, signup>>

----------------------------------------------------------------------------
(* Bounds *)

\* Largest length of either collection: a create that would exceed it is
\* not issued.
MaxRecs == 2

----------------------------------------------------------------------------
(* Strings *)

I1 == <<"1", "2", "0", "1">>
I2 == <<"0", "7">>
N1 == <<"A", "b">>
N2 == <<"B", "o">>
E1 == <<"b", "@", "X">>
P1 == <<"p", "w">>
EmptyStr == <<>>

StudentPrefix == <<"S", "t", "u", "d", "e", "n", "t", "@">>
TeacherPrefix == <<"T", "e", "a", "c", "h", "e", "r", "@">>

\* String.prototype.slice(-3): the last three characters, or the whole
\* string when it is shorter.
SliceLast3(s) ==
    IF Len(s) <= 3 THEN s ELSE SubSeq(s, Len(s) - 2, Len(s))

\* toLowerCase on one character of the alphabet the inputs are drawn from.
LowerChar(c) ==
    CASE c = "A" -> "a"
      [] c = "B" -> "b"
      [] c = "X" -> "x"
      [] c = "S" -> "s"
      [] c = "T" -> "t"
      [] OTHER -> c

\* String.prototype.toLowerCase
toLowerCase(s) == [i \in 1..Len(s) |-> LowerChar(s[i])]

\* String.prototype.includes: q occurs in s as a contiguous substring.
includes(s, q) ==
    \E i \in 0..(Len(s) - Len(q)) : SubSeq(s, i + 1, i + Len(q)) = q

----------------------------------------------------------------------------
(* Objects *)

Rec(f) == [k |-> "rec", f |-> f]
Arr(e) == [k |-> "arr", e |-> e]

EmptyObj == <<>>

Has(o, p) == p \in DOMAIN o

\* !o.p for a property that is a string or undefined.
Falsy(o, p) == ~Has(o, p) \/ o[p] = EmptyStr

IsRef(v) == DOMAIN v = {"ref"}

\* Array.isArray(o.specialization)
IsArrayProp(o, p) == Has(o, p) /\ IsRef(o[p])

\* { ...a, ...b }: the properties of b over those of a.
Spread(a, b) == b @@ a

\* The value a JSON.stringify/JSON.parse round trip gives for an object:
\* arrays are written out element by element, so no reference survives.
DeepFields(f, h) ==
    [p \in DOMAIN f |->
        IF p = "specialization" /\ IsRef(f[p])
        THEN [arr |-> h[f[p].ref].e]
        ELSE f[p]]

\* JSON.stringify of a collection.
Serialize(coll, h) == [i \in 1..Len(coll) |-> DeepFields(h[coll[i]].f, h)]

StudentsView == Serialize(students, heap)
TeachersView == Serialize(teachers, heap)

----------------------------------------------------------------------------
(* The record of the last facade call *)

Absent == [t |-> "absent"]

Void == [t |-> "void"]
Null == [t |-> "null"]
Bool(b) == [t |-> "bool", b |-> b]
RecRef(a) == [t |-> "rec", a |-> a]
List(v) == [t |-> "list", v |-> v]
\* throw new Error(...): the three messages of storage.js.
Throw(e) == [t |-> "throw", e |-> e]

ValidationError == "must have id, name, and email"
DuplicateKeyError == "already exists"
NotFoundError == "not found"
ImportError == "Failed to import data"

NoImport == [students |-> Absent, teachers |-> Absent]

\* op: the function called; id, data, imp: its arguments (id is the id, or
\* the query of a search; data is the
\* studentData/teacherData/updates object, imp the object given to
\* importData); ret: what it returned or threw; again: for a delete, whether
\* the call before it was a successful delete of the same id; mut: what the
\* caller has done since to the values it holds; flushed: the collections
\* whose flush the call forced before it returned.
Call(op, id, data, imp, ret, again) ==
    [op |-> op, id |-> id, data |-> data, imp |-> imp, ret |-> ret,
     again |-> again, mut |-> "none", flushed |-> {}]

\* The record of a call that has run flushStudents().
WithFlush(call) == [call EXCEPT !.flushed = {"students"}]

\* The addresses a caller holds after the call: the returned record or
\* records and the array it passed as specialization.  (The object given to
\* importData is a parsed backup that the caller drops.)
RetAddrs(ret) ==
    IF ret.t = "list" THEN ret.v
    ELSE IF ret.t = "rec" THEN <<ret.a>>
    ELSE <<>>

DataAddrs(data) ==
    IF IsArrayProp(data, "specialization") THEN <<data.specialization.ref>> ELSE <<>>

HeldSeq(l) == RetAddrs(l.ret) \o DataAddrs(l.data)

\* What exportData returned: nothing yet, or its object (the records of its
\* two arrays, by address, and the export date).
NoExport == [t |-> "none"]
Export(s, t, date) == [t |-> "export", students |-> s, teachers |-> t, exportDate |-> date]

ExportAddrs(x) == IF x.t = "export" THEN x.students \o x.teachers ELSE <<>>

----------------------------------------------------------------------------
(* Addresses carry no meaning: after every step the cells that are still   *)
(* reachable are renumbered in the order in which a walk from `students`,  *)
(* `teachers` and the caller's values meets them, and the others are       *)
(* dropped (garbage collection).                                           *)

Kids(a, h) ==
    IF h[a].k = "rec" /\ IsArrayProp(h[a].f, "specialization")
    THEN <<h[a].f.specialization.ref>>
    ELSE <<>>

RECURSIVE WithKids(_, _)
WithKids(s, h) ==
    IF s = <<>> THEN <<>>
    ELSE <<Head(s)>> \o Kids(Head(s), h) \o WithKids(Tail(s), h)

Occurs(s, a) == \E i \in 1..Len(s) : s[i] = a

RECURSIVE Dedupe(_, _)
Dedupe(s, seen) ==
    IF s = <<>> THEN seen
    ELSE Dedupe(Tail(s), IF Occurs(seen, Head(s)) THEN seen ELSE Append(seen, Head(s)))

IndexOf(s, a) == CHOOSE i \in 1..Len(s) : s[i] = a

RenameFields(f, order) ==
    [p \in DOMAIN f |->
        IF p = "specialization" /\ IsRef(f[p])
        THEN [ref |-> IndexOf(order, f[p].ref)]
        ELSE f[p]]

RenameCell(c, order) ==
    IF c.k = "rec" THEN Rec(RenameFields(c.f, order)) ELSE c

RenameSeq(s, order) == [i \in 1..Len(s) |-> IndexOf(order, s[i])]

RenameRet(ret, order) ==
    IF ret.t = "list" THEN List(RenameSeq(ret.v, order))
    ELSE IF ret.t = "rec" THEN RecRef(IndexOf(order, ret.a))
    ELSE ret

RenameLast(l, order) ==
    [l EXCEPT !.ret = RenameRet(l.ret, order),
              !.data = RenameFields(l.data, order)]

\* The reachable addresses, in the order of the walk.
Reachable(m) ==
    Dedupe(WithKids(m.students \o m.teachers \o HeldSeq(m.last) \o ExportAddrs(m.exported),
                    m.heap), <<>>)

RenameExport(x, order) ==
    IF x.t = "export"
    THEN [x EXCEPT !.students = RenameSeq(x.students, order),
                   !.teachers = RenameSeq(x.teachers, order)]
    ELSE x

\* m = [students, teachers, heap, last, exported]
Canon(m) ==
    CHOOSE c \in {[students |-> RenameSeq(m.students, order),
                   teachers |-> RenameSeq(m.teachers, order),
                   heap |-> [i \in 1..Len(order) |-> RenameCell(m.heap[order[i]], order)],
                   last |-> RenameLast(m.last, order),
                   exported |-> RenameExport(m.exported, order)] :
                        order \in {Reachable(m)}} : TRUE

\* The step's result: the arrays, the heap and the call record, and the
\* durable slots.
CommitStorage(s, t, h, l, st, x) ==
    \E c \in {Canon([students |-> s, teachers |-> t, heap |-> h, last |-> l,
                     exported |-> x])} :
       /\ students' = c.students
       /\ teachers' = c.teachers
       /\ heap' = c.heap
       /\ last' = c.last
       /\ exported' = c.exported
       /\ store' = st
       /\ focus' = focus

\* A step of storage.js: the components' state is not its business.
CommitExport(s, t, h, l, st, x) ==
    /\ CommitStorage(s, t, h, l, st, x)
    /\ UNCHANGED <<app, listing, signup>>

\* A step of a function other than exportData: the caller keeps the export
\* it has.
Commit(s, t, h, l, st) == CommitExport(s, t, h, l, st, exported)

----------------------------------------------------------------------------
(* The backing modules ./students and ./teachers (their source is not in   *)
(* the repository snapshot; modelled from sections 4.2, 4.3 and 6 of the   *)
(* specification).  A storage write is taken to succeed.                   *)

Saved(v) == [t |-> "json", v |-> v]
Stamp == [t |-> "timestamp"]

\* saveStudents(list): the collection becomes `list` and is written to the
\* "students" slot.
saveStudents(list, h, st) ==
    [students |-> list, store |-> [st EXCEPT !.students = Saved(Serialize(list, h))]]

\* saveTeachers(list)
saveTeachers(list, h, st) ==
    [teachers |-> list, store |-> [st EXCEPT !.teachers = Saved(Serialize(list, h))]]

\* flushStudents(): a synchronous write of the student collection, and of
\* the "students_last_saved" marker.
flushStudents(s, h, st) ==
    [st EXCEPT !.students = Saved(Serialize(s, h)), !.students_last_saved = Stamp]

\* The built-in seed data.
DefaultStudents ==
    << [id |-> I1, name |-> N1, email |-> E1, password |-> StudentPrefix \o SliceLast3(I1)] >>

DefaultTeachers ==
    << [id |-> I2, name |-> N1, email |-> E1, password |-> TeacherPrefix \o SliceLast3(I2),
        specialization |-> [arr |-> <<"M">>]] >>

\* Building the objects a literal or a parsed JSON text denotes: one record
\* cell per element, and one array cell per specialization array.
AllocRec(v, h) ==
    IF Has(v, "specialization") /\ DOMAIN v.specialization = {"arr"}
    THEN LET h1 == Append(h, Arr(v.specialization.arr))
         IN Append(h1, Rec([v EXCEPT !.specialization = [ref |-> Len(h1)]]))
    ELSE Append(h, Rec(v))

RECURSIVE AllocList(_, _)
\* [v |-> the addresses of the records, h |-> the heap holding them]
AllocList(vals, h) ==
    IF vals = <<>> THEN [v |-> <<>>, h |-> h]
    ELSE LET h1 == AllocRec(Head(vals), h)
             rest == AllocList(Tail(vals), h1)
         IN [v |-> <<Len(h1)>> \o rest.v, h |-> rest.h]

InitCall == Call("load", EmptyStr, EmptyObj, NoImport, Void, FALSE)

\* localStorage with no entry under any of the application's keys.
EmptyStore ==
    [students |-> Absent, teachers |-> Absent, students_last_saved |-> Absent,
     currentUser |-> Absent, signupUsers |-> Absent]

----------------------------------------------------------------------------
(* The components' first render *)

\* StudentsListView: resetForm's object
BlankStudentForm == [id |-> EmptyStr, name |-> EmptyStr, email |-> EmptyStr, password |-> EmptyStr]

\* StudentsListView: the useState initialisers; `list` is what getStudents()
\* returned, by value.  lastStep names the last handler run and calls the
\* functions of storage.js it called, in order.
ListView(list) ==
    [students |-> list, isCreateOpen |-> FALSE, editingId |-> Null,
     formData |-> BlankStudentForm, error |-> EmptyStr, success |-> EmptyStr,
     lastStep |-> "mount", calls |-> <<>>]

\* SignupForm: the object of the useState initialiser of formData
BlankSignupForm ==
    [firstName |-> EmptyStr, lastName |-> EmptyStr, age |-> EmptyStr,
     phoneNumber |-> EmptyStr, gender |-> EmptyStr, email |-> EmptyStr,
     password |-> EmptyStr, confirmPassword |-> EmptyStr]

\* SignupForm: the useState initialisers.  errors holds the messages by
\* field; lastStep names the last handler run.
SignupForm ==
    [formData |-> BlankSignupForm, errors |-> EmptyObj, success |-> EmptyStr,
     isLoading |-> FALSE, lastStep |-> "mount"]

----------------------------------------------------------------------------
(* App.jsx: the session.  A user object holds its specialization by value. *)

Undefined == [t |-> "undefined"]

Slash == "/"
Root == <<Slash>>
Dashboard == <<"d", "a", "s", "h", "b", "o", "a", "r", "d">>

\* `/${user.id}/dashboard`
DashboardPath(id) == <<Slash>> \o id \o <<Slash>> \o Dashboard

\* String.prototype.split("/"): `cur` is the piece being read.
RECURSIVE split(_, _)
split(str, cur) ==
    IF str = <<>> THEN <<cur>>
    ELSE IF Head(str) = Slash THEN <<cur>> \o split(Tail(str), <<>>)
    ELSE split(Tail(str), Append(cur, Head(str)))

\* .filter(Boolean) on strings: the empty ones go.
filterBoolean(parts) == SelectSeq(parts, LAMBDA x : x # <<>>)

\* JSON.stringify(user): a property whose value is undefined is left out.
stringify(user) ==
    IF user.specialization = Undefined
    THEN [q \in DOMAIN user \ {"specialization"} |-> user[q]]
    ELSE user

\* The initialiser of useState: the parsed "currentUser" entry, or null.
initialUser(st) == IF st.currentUser = Absent THEN Null ELSE st.currentUser.v

NoAuth == [kind |-> "none"]
Login(user, remember) == [kind |-> "login", user |-> user, remember |-> remember]
Logout == [kind |-> "logout"]

\* The component right after a page load at `path`: currentUser from the
\* entry, the effect still to run.  lastStep names the last step of the
\* component; auth is the most recent login or logout; opened tells
\* whether a page was opened at a typed address since then; origin tells
\* what set the current (or the last) session: "login", "link" (the
\* effect) or "entry" (the remembered user).
Mounted(path, st) ==
    [currentUser |-> initialUser(st), pathname |-> path, pending |-> TRUE,
     lastStep |-> "open", auth |-> NoAuth, opened |-> TRUE,
     origin |-> IF st.currentUser = Absent THEN "none" ELSE "entry"]

\* Module load with empty slots: both collections fall back to the seed.
Init ==
    LET s == AllocList(DefaultStudents, <<>>)
        t == AllocList(DefaultTeachers, s.h)
        c == Canon([students |-> s.v, teachers |-> t.v, heap |-> t.h, last |-> InitCall,
                    exported |-> NoExport])
    IN /\ students = c.students
       /\ teachers = c.teachers
       /\ heap = c.heap
       /\ last = c.last
       /\ store = EmptyStore
       /\ focus \in {"students", "teachers"}
       /\ exported = NoExport
       /\ app = Mounted(Root, EmptyStore)
       /\ listing = ListView(DefaultStudents)
       /\ signup = SignupForm

----------------------------------------------------------------------------
(* Pieces of the CRUD functions *)

\* The check without its email clause.
MissingRequired_noEmail(data) == Falsy(data, "id") \/ Falsy(data, "name")

\* !data.id || !data.name || !data.email
MissingRequired(data) ==
    Falsy(data, "id") \/ Falsy(data, "name") \/ Falsy(data, "email")

\* The predicate negated: findIndex(x => x.id !== id).
findIndex_negated(coll, h, id) ==
    IF \E i \in 1..Len(coll) : h[coll[i]].f.id # id
    THEN CHOOSE i \in 1..Len(coll) :
            /\ h[coll[i]].f.id # id
            /\ \A j \in 1..(i - 1) : h[coll[j]].f.id = id
    ELSE 0

\* Array.prototype.findIndex(x => x.id === id), 1-based; 0 stands for -1.
findIndex(coll, h, id) ==
    IF \E i \in 1..Len(coll) : Has(h[coll[i]].f, "id") /\ h[coll[i]].f.id = id
    THEN CHOOSE i \in 1..Len(coll) :
            /\ Has(h[coll[i]].f, "id") /\ h[coll[i]].f.id = id
            /\ \A j \in 1..(i - 1) : ~(Has(h[coll[j]].f, "id") /\ h[coll[j]].f.id = id)
    ELSE 0

\* The lookup comparing the wrong property: x.name === id.
find_byName(coll, h, id) ==
    IF \E i \in 1..Len(coll) : h[coll[i]].f.name = id
    THEN coll[CHOOSE i \in 1..Len(coll) : h[coll[i]].f.name = id]
    ELSE 0

\* Array.prototype.find(x => x.id === id): the address of the first match;
\* 0 stands for undefined.
find(coll, h, id) ==
    IF findIndex(coll, h, id) = 0 THEN 0 ELSE coll[findIndex(coll, h, id)]

\* The literal with slice(-2) for slice(-3).
newStudent_slice2(studentData) ==
    [id |-> studentData.id,
     name |-> studentData.name,
     email |-> studentData.email,
     password |-> IF Falsy(studentData, "password")
                  THEN StudentPrefix
                         \o SubSeq(studentData.id, Len(studentData.id) - 1, Len(studentData.id))
                  ELSE studentData.password]

\* The object literal of createStudent.
newStudent(studentData) ==
    [id |-> studentData.id,
     name |-> studentData.name,
     email |-> studentData.email,
     password |-> IF Falsy(studentData, "password")
                  THEN StudentPrefix \o SliceLast3(studentData.id)
                  ELSE studentData.password]

\* The object literal of createTeacher.
newTeacher(teacherData, emptyArray) ==
    [id |-> teacherData.id,
     name |-> teacherData.name,
     email |-> teacherData.email,
     password |-> IF Falsy(teacherData, "password")
                  THEN TeacherPrefix \o SliceLast3(teacherData.id)
                  ELSE teacherData.password,
     specialization |-> IF IsArrayProp(teacherData, "specialization")
                        THEN teacherData.specialization
                        ELSE [ref |-> emptyArray]]

\* The merge without the trailing `id`.
mergeUpdates_noId(record, updates, id) == Spread(record, updates)

\* { ...record, ...updates, id }
mergeUpdates(record, updates, id) == ("id" :> id) @@ Spread(record, updates)

\* Array.prototype.splice(index, 1), 1-based.
splice(coll, index) ==
    [i \in 1..(Len(coll) - 1) |-> IF i < index THEN coll[i] ELSE coll[i + 1]]

\* The predicate matching on the id as well.
matches_withId(f, q) ==
    \/ includes(toLowerCase(f.name), q)
    \/ includes(toLowerCase(f.email), q)
    \/ includes(f.id, q)

\* The filter predicate of searchStudents/searchTeachers.
matches(f, q) ==
    includes(toLowerCase(f.name), q) \/ includes(toLowerCase(f.email), q)

\* Array.prototype.filter: the elements themselves, in order.
RECURSIVE filter(_, _, _)
filter(coll, h, q) ==
    IF coll = <<>> THEN <<>>
    ELSE (IF matches(h[Head(coll)].f, q) THEN <<Head(coll)>> ELSE <<>>)
            \o filter(Tail(coll), h, q)

\* coll.map(x => ({ ...x })): one new object per element, holding the
\* element's properties (and so the same specialization array).
RECURSIVE mapCopy(_, _)
mapCopy(coll, h) ==
    IF coll = <<>> THEN [v |-> <<>>, h |-> h]
    ELSE LET h1 == Append(h, Rec(h[Head(coll)].f))
             rest == mapCopy(Tail(coll), h1)
         IN [v |-> <<Len(h1)>> \o rest.v, h |-> rest.h]

----------------------------------------------------------------------------
(* Students CRUD *)

getStudents ==
    LET m == mapCopy(students, heap)
    IN Commit(students, teachers, m.h,
              Call("getStudents", EmptyStr, EmptyObj, NoImport, List(m.v), FALSE), store)

getStudentById(id) ==
    LET student == find(students, heap, id)
    IN IF student = 0
       THEN Commit(students, teachers, heap,
                   Call("getStudentById", id, EmptyObj, NoImport, Null, FALSE), store)
       ELSE LET h1 == Append(heap, Rec(heap[student].f))
            IN Commit(students, teachers, h1,
                      Call("getStudentById", id, EmptyObj, NoImport, RecRef(Len(h1)), FALSE),
                      store)

createStudent(studentData) ==
    IF MissingRequired(studentData)
    THEN Commit(students, teachers, heap,
                Call("createStudent", EmptyStr, studentData, NoImport,
                     Throw(ValidationError), FALSE), store)
    ELSE IF find(students, heap, studentData.id) # 0
    THEN Commit(students, teachers, heap,
                Call("createStudent", EmptyStr, studentData, NoImport,
                     Throw(DuplicateKeyError), FALSE), store)
    ELSE LET h1 == Append(heap, Rec(newStudent(studentData)))
             pushed == Append(students, Len(h1))
             saved == saveStudents(pushed, h1, store)
             flushed == flushStudents(saved.students, h1, saved.store)
             h2 == Append(h1, Rec(h1[Len(h1)].f))
         IN /\ Len(students) < MaxRecs
            /\ Commit(saved.students, teachers, h2,
                      WithFlush(Call("createStudent", EmptyStr, studentData, NoImport,
                                     RecRef(Len(h2)), FALSE)), flushed)

updateStudent(id, updates) ==
    LET index == findIndex(students, heap, id)
    IN IF index = 0
       THEN Commit(students, teachers, heap,
                   Call("updateStudent", id, updates, NoImport, Throw(NotFoundError), FALSE),
                   store)
       ELSE LET h1 == Append(heap, Rec(mergeUpdates(heap[students[index]].f, updates, id)))
                assigned == [students EXCEPT ![index] = Len(h1)]
                saved == saveStudents(assigned, h1, store)
                flushed == flushStudents(saved.students, h1, saved.store)
                h2 == Append(h1, Rec(h1[saved.students[index]].f))
            IN Commit(saved.students, teachers, h2,
                      WithFlush(Call("updateStudent", id, updates, NoImport,
                                     RecRef(Len(h2)), FALSE)),
                      flushed)

deleteStudent(id) ==
    LET index == findIndex(students, heap, id)
        again == last.op = "deleteStudent" /\ last.id = id /\ last.ret = Bool(TRUE)
    IN IF index = 0
       THEN Commit(students, teachers, heap,
                   Call("deleteStudent", id, EmptyObj, NoImport, Bool(FALSE), again), store)
       ELSE LET saved == saveStudents(splice(students, index), heap, store)
                flushed == flushStudents(saved.students, heap, saved.store)
            IN Commit(saved.students, teachers, heap,
                      WithFlush(Call("deleteStudent", id, EmptyObj, NoImport, Bool(TRUE),
                                     again)),
                      flushed)

searchStudents(query) ==
    LET q == toLowerCase(query)
    IN Commit(students, teachers, heap,
              Call("searchStudents", query, EmptyObj, NoImport,
                   List(filter(students, heap, q)), FALSE), store)

----------------------------------------------------------------------------
(* Teachers CRUD *)

getTeachers ==
    LET m == mapCopy(teachers, heap)
    IN Commit(students, teachers, m.h,
              Call("getTeachers", EmptyStr, EmptyObj, NoImport, List(m.v), FALSE), store)

getTeacherById(id) ==
    LET teacher == find(teachers, heap, id)
    IN IF teacher = 0
       THEN Commit(students, teachers, heap,
                   Call("getTeacherById", id, EmptyObj, NoImport, Null, FALSE), store)
       ELSE LET h1 == Append(heap, Rec(heap[teacher].f))
            IN Commit(students, teachers, h1,
                      Call("getTeacherById", id, EmptyObj, NoImport, RecRef(Len(h1)), FALSE),
                      store)

\* h0 is the heap at the call: `heap` and the array the caller built for
\* teacherData.specialization, when it passes one.
createTeacher(teacherData, h0) ==
    IF MissingRequired(teacherData)
    THEN Commit(students, teachers, h0,
                Call("createTeacher", EmptyStr, teacherData, NoImport,
                     Throw(ValidationError), FALSE), store)
    ELSE IF find(teachers, h0, teacherData.id) # 0
    THEN Commit(students, teachers, h0,
                Call("createTeacher", EmptyStr, teacherData, NoImport,
                     Throw(DuplicateKeyError), FALSE), store)
    ELSE LET hE == Append(h0, Arr(<<>>))
             h1 == Append(hE, Rec(newTeacher(teacherData, Len(hE))))
             pushed == Append(teachers, Len(h1))
             saved == saveTeachers(pushed, h1, store)
             h2 == Append(h1, Rec(h1[Len(h1)].f))
         IN /\ Len(teachers) < MaxRecs
            /\ Commit(students, saved.teachers, h2,
                      Call("createTeacher", EmptyStr, teacherData, NoImport,
                           RecRef(Len(h2)), FALSE), saved.store)

updateTeacher(id, updates, h0) ==
    LET index == findIndex(teachers, h0, id)
    IN IF index = 0
       THEN Commit(students, teachers, h0,
                   Call("updateTeacher", id, updates, NoImport, Throw(NotFoundError), FALSE),
                   store)
       ELSE LET h1 == Append(h0, Rec(mergeUpdates(h0[teachers[index]].f, updates, id)))
                assigned == [teachers EXCEPT ![index] = Len(h1)]
                saved == saveTeachers(assigned, h1, store)
                h2 == Append(h1, Rec(h1[saved.teachers[index]].f))
            IN Commit(students, saved.teachers, h2,
                      Call("updateTeacher", id, updates, NoImport, RecRef(Len(h2)), FALSE),
                      saved.store)

deleteTeacher(id) ==
    LET index == findIndex(teachers, heap, id)
        again == last.op = "deleteTeacher" /\ last.id = id /\ last.ret = Bool(TRUE)
    IN IF index = 0
       THEN Commit(students, teachers, heap,
                   Call("deleteTeacher", id, EmptyObj, NoImport, Bool(FALSE), again), store)
       ELSE LET saved == saveTeachers(splice(teachers, index), heap, store)
            IN Commit(students, saved.teachers, heap,
                      Call("deleteTeacher", id, EmptyObj, NoImport, Bool(TRUE), again),
                      saved.store)

searchTeachers(query) ==
    LET q == toLowerCase(query)
    IN Commit(students, teachers, heap,
              Call("searchTeachers", query, EmptyObj, NoImport,
                   List(filter(teachers, heap, q)), FALSE), store)

----------------------------------------------------------------------------
(* Reset and import *)

\* resetStudents(); resetTeachers()  -- each puts the seed back and saves it.
resetAllData ==
    LET s == AllocList(DefaultStudents, heap)
        savedS == saveStudents(s.v, s.h, store)
        t == AllocList(DefaultTeachers, s.h)
        savedT == saveTeachers(t.v, t.h, savedS.store)
    IN Commit(savedS.students, savedT.teachers, t.h,
              Call("resetAllData", EmptyStr, EmptyObj, NoImport, Void, FALSE), savedT.store)

\* The students or teachers entry of the object given to importData: absent,
\* a string, or an array of records.
NotAnArray == [t |-> "string"]
Records(vals) == [t |-> "list", v |-> vals]

\* data.students && Array.isArray(data.students)
IsArrayArg(x) == x.t = "list"

\* An import that adds the records given to the ones held.
imported_merge(held, given) == held \o given

\* The list importData saves for an entry that is an array: the array.
imported(held, given) == given

\* data is null (reading data.students throws a TypeError, which the catch
\* wraps), or [students |-> x, teachers |-> y], each absent, a string, or an
\* array of records (given by value: the parsed backup's objects are new).
importData(data) ==
    IF data = Null
    THEN Commit(students, teachers, heap,
                Call("importData", EmptyStr, EmptyObj, data, Throw(ImportError), FALSE), store)
    ELSE
    LET s == IF IsArrayArg(data.students) THEN AllocList(data.students.v, heap)
             ELSE [v |-> students, h |-> heap]
        savedS == IF IsArrayArg(data.students)
                  THEN saveStudents(imported(students, s.v), s.h, store)
                  ELSE [students |-> students, store |-> store]
        t == IF IsArrayArg(data.teachers) THEN AllocList(data.teachers.v, s.h)
             ELSE [v |-> teachers, h |-> s.h]
        savedT == IF IsArrayArg(data.teachers)
                  THEN saveTeachers(imported(teachers, t.v), t.h, savedS.store)
                  ELSE [teachers |-> teachers, store |-> savedS.store]
    IN Commit(savedS.students, savedT.teachers, t.h,
              Call("importData", EmptyStr, EmptyObj, data, Void, FALSE), savedT.store)

\* A copy one level deep, as getStudents makes it: new record objects that
\* hold the stored specialization arrays.
deepCopy_shallow(coll, h) == mapCopy(coll, h)

\* JSON.parse(JSON.stringify(coll)): the text holds each record's
\* properties by value, and parsing it builds a new object per record and a
\* new array per specialization.
deepCopy(coll, h) == AllocList(Serialize(coll, h), h)

exportData ==
    LET s == deepCopy(students, heap)
        t == deepCopy(teachers, s.h)
    IN CommitExport(students, teachers, t.h,
                    Call("exportData", EmptyStr, EmptyObj, NoImport, Void, FALSE), store,
                    Export(s.v, t.v, Stamp))

\* The export the caller holds, as the argument of importData.
ExportedData ==
    [students |-> Records(Serialize(exported.students, heap)),
     teachers |-> Records(Serialize(exported.teachers, heap))]

\* importData(exported)
importExported ==
    /\ exported.t = "export"
    /\ importData(ExportedData)

----------------------------------------------------------------------------
(* The caller, between two facade calls: it writes to the objects and      *)
(* arrays it holds.                                                        *)

HeldRecords == {a \in 1..Len(heap) : Occurs(HeldSeq(last), a) /\ heap[a].k = "rec"}

HeldArrays ==
    {a \in 1..Len(heap) :
        /\ heap[a].k = "arr"
        /\ \/ Occurs(HeldSeq(last), a)
           \/ \E r \in HeldRecords : Occurs(Kids(r, heap), a)}

\* record.name = N2
callerSetsField(a) ==
    /\ a \in HeldRecords
    /\ Has(heap[a].f, "name")
    /\ heap[a].f.name # N2
    /\ Commit(students, teachers, [heap EXCEPT ![a].f.name = N2],
              [last EXCEPT !.mut = "field"], store)

\* array.pop()
callerPops(a) ==
    /\ a \in HeldArrays
    /\ heap[a].e # <<>>
    /\ Commit(students, teachers, [heap EXCEPT ![a].e = SubSeq(@, 1, Len(@) - 1)],
              [last EXCEPT !.mut = "array"], store)

\* list.length = 0 on the list getStudents or getTeachers returned
callerTruncates ==
    /\ last.op \in {"getStudents", "getTeachers"}
    /\ last.ret.v # <<>>
    /\ Commit(students, teachers, heap,
              [last EXCEPT !.ret = List(<<>>), !.mut = "list"], store)

----------------------------------------------------------------------------
(* Inputs *)

ValidIds == {I1, I2}
LookupIds == {I1, I2}
Queries == {EmptyStr, <<"a", "B">>, <<"@", "x">>, <<"0">>}

Base(id) == [id |-> id, name |-> N1, email |-> E1]

Without(o, p) == [x \in DOMAIN o \ {p} |-> o[x]]

\* An object with a required property missing or empty; its id, when it
\* has one, is the seed student's.
Broken ==
    {Without(Base(I1), "id"), ("id" :> EmptyStr) @@ Base(I1),
     ("name" :> EmptyStr) @@ Base(I1), Without(Base(I1), "email")}

StudentInputs ==
    {Base(id) : id \in ValidIds}
        \cup {("password" :> pw) @@ Base(id) : id \in ValidIds, pw \in {EmptyStr, P1}}
        \cup Broken

\* teacherData without its specialization, and the specialization to go
\* with it: "none", "string" (malformed) or "array".  The seed teacher has
\* id I2; the teachers created have id I1.
TeacherInputs ==
    ({Base(I1)} \X {"none", "string"})
        \cup ({("password" :> P1) @@ Base(I1)} \X {"array"})
        \cup ({Without(Base(I2), "id"), ("email" :> EmptyStr) @@ Base(I2)} \X {"none"})

StudentPatches == {[name |-> N2], [id |-> I2, password |-> P1]}

TeacherPatches ==
    {<<[name |-> N2], "none">>, <<[id |-> I2, password |-> P1], "array">>,
     <<[name |-> N2], "string">>}

\* The caller's argument object: o, with the specialization of the given
\* kind.  The array, when there is one, is a new cell at the end of h.
WithSpecialization(o, kind, h) ==
    IF kind = "array" THEN ("specialization" :> [ref |-> Len(h) + 1]) @@ o
    ELSE IF kind = "string" THEN ("specialization" :> [str |-> <<"M">>]) @@ o
    ELSE o

ArgHeap(kind, h) == IF kind = "array" THEN Append(h, Arr(<<"M">>)) ELSE h

ImportedStudents ==
    << [id |-> I1, name |-> N1, email |-> E1, password |-> P1],
       [id |-> I1, name |-> N2, email |-> E1, password |-> P1] >>

ImportedTeachers ==
    << [id |-> I1, name |-> N1, email |-> E1, password |-> P1,
        specialization |-> [arr |-> <<"M">>]],
       [id |-> I1, name |-> N2, email |-> E1, password |-> P1,
        specialization |-> [arr |-> <<>>]] >>

ImportInputs ==
    { [students |-> Records(ImportedStudents), teachers |-> Absent],
      [students |-> Absent, teachers |-> Records(ImportedTeachers)],
      [students |-> NotAnArray, teachers |-> NotAnArray],
      Null }

----------------------------------------------------------------------------

StudentOps ==
    \/ getStudents
    \/ \E id \in LookupIds : getStudentById(id)
    \/ \E d \in StudentInputs : createStudent(d)
    \/ \E id \in LookupIds, u \in StudentPatches : updateStudent(id, u)
    \/ \E id \in LookupIds : deleteStudent(id)
    \/ \E q \in Queries : searchStudents(q)

TeacherOps ==
    \/ getTeachers
    \/ \E id \in LookupIds : getTeacherById(id)
    \/ \E d \in TeacherInputs :
          createTeacher(WithSpecialization(d[1], d[2], heap), ArgHeap(d[2], heap))
    \/ \E id \in LookupIds, u \in TeacherPatches :
          updateTeacher(id, WithSpecialization(u[1], u[2], heap), ArgHeap(u[2], heap))
    \/ \E id \in LookupIds : deleteTeacher(id)
    \/ \E q \in Queries : searchTeachers(q)

Import == \E data \in ImportInputs : importData(data)

Caller ==
    \/ \E a \in 1..Len(heap) : callerSetsField(a)
    \/ \E a \in 1..Len(heap) : callerPops(a)
    \/ callerTruncates

\* Student functions read and write `students` only, teacher functions
\* `teachers` only: a behaviour runs the record operations of one of the
\* two collections, and resetAllData and importData, which touch both.
Next ==
    \/ focus = "students" /\ StudentOps
    \/ focus = "teachers" /\ TeacherOps
    \/ resetAllData
    \/ Import
    \/ Caller

Spec == Init /\ [][Next]_vars

\* Backups: exportData, importData of the export the caller holds, and
\* between them the calls that change a collection or a stored record (a
\* create, an update, a delete, a reset, and the caller's writes to what
\* getTeachers and the searches returned).
BackupStudentOps ==
    \/ createStudent(Base(I2))
    \/ updateStudent(I1, [name |-> N2])
    \/ deleteStudent(I1)
    \/ searchStudents(EmptyStr)

BackupTeacherOps ==
    \/ createTeacher(Base(I1), heap)
    \/ updateTeacher(I2, WithSpecialization([password |-> P1], "array", heap),
                      ArgHeap("array", heap))
    \/ deleteTeacher(I2)
    \/ getTeachers
    \/ searchTeachers(EmptyStr)

NextBackup ==
    \/ focus = "students" /\ BackupStudentOps
    \/ focus = "teachers" /\ BackupTeacherOps
    \/ exportData
    \/ importExported
    \/ resetAllData
    \/ Caller

SpecBackup == Init /\ [][NextBackup]_vars

----------------------------------------------------------------------------
(* App.jsx: login, logout and the effect that reads the address bar *)

\* The object literal of handleLogin.
User(userType, userData) ==
    [id |-> userData.id, name |-> userData.name, email |-> userData.email,
     type |-> userType,
     specialization |-> IF Has(userData, "specialization")
                        THEN userData.specialization
                        ELSE Undefined]

\* The login that writes the entry whatever `remember` is.
rememberUser_always(remember, user, st) ==
    [st EXCEPT !.currentUser = Saved(stringify(user))]

\* remember ? localStorage.setItem("currentUser", JSON.stringify(user))
\*          : localStorage.removeItem("currentUser")
rememberUser(remember, user, st) ==
    IF remember
    THEN [st EXCEPT !.currentUser = Saved(stringify(user))]
    ELSE [st EXCEPT !.currentUser = Absent]

\* The lookup with the teachers asked first.
resolve_teachersFirst(id, s, t, h) ==
    LET student == find(s, h, id)
        teacher == find(t, h, id)
    IN IF teacher # 0
       THEN [id |-> h[teacher].f.id, name |-> h[teacher].f.name,
             email |-> h[teacher].f.email, type |-> "lecturer",
             specialization |-> IF Has(h[teacher].f, "specialization")
                                THEN DeepFields(h[teacher].f, h).specialization
                                ELSE Undefined]
       ELSE IF student # 0
       THEN [id |-> h[student].f.id, name |-> h[student].f.name,
             email |-> h[student].f.email, type |-> "student"]
       ELSE Null

\* The effect's lookups: getStudentById(id), then getTeacherById(id); the
\* user object of the first one that finds a record, or null.
resolve(id, s, t, h) ==
    LET student == find(s, h, id)
        teacher == find(t, h, id)
    IN IF student # 0
       THEN [id |-> h[student].f.id, name |-> h[student].f.name,
             email |-> h[student].f.email, type |-> "student"]
       ELSE IF teacher # 0
       THEN [id |-> h[teacher].f.id, name |-> h[teacher].f.name,
             email |-> h[teacher].f.email, type |-> "lecturer",
             specialization |-> IF Has(h[teacher].f, "specialization")
                                THEN DeepFields(h[teacher].f, h).specialization
                                ELSE Undefined]
       ELSE Null

StorageUnchanged == UNCHANGED <<students, teachers, heap, last, focus, exported>>

\* LoginPage calls onLogin; it is rendered only while currentUser is null.
handleLogin(userType, userData, remember) ==
    LET user == User(userType, userData)
    IN /\ ~app.pending
       /\ app.currentUser = Null
       /\ app' = [app EXCEPT !.currentUser = user,
                             !.pathname = DashboardPath(user.id),
                             !.pending = TRUE,
                             !.lastStep = "login",
                             !.auth = Login(user, remember),
                             !.opened = FALSE,
                             !.origin = "login"]
       /\ store' = rememberUser(remember, user, store)
       /\ StorageUnchanged
       /\ UNCHANGED <<listing, signup>>

\* A logout that leaves the address bar as it is.
handleLogout_keepsPath ==
    /\ ~app.pending
    /\ app.currentUser # Null
    /\ app' = [app EXCEPT !.currentUser = Null,
                          !.pending = TRUE,
                          !.lastStep = "logout",
                          !.auth = Logout,
                          !.opened = FALSE]
    /\ store' = [store EXCEPT !.currentUser = Absent]
    /\ StorageUnchanged
    /\ UNCHANGED <<listing, signup>>

\* The Logout button; it is rendered only while currentUser is not null.
handleLogout ==
    /\ ~app.pending
    /\ app.currentUser # Null
    /\ app' = [app EXCEPT !.currentUser = Null,
                          !.pathname = Root,
                          !.pending = TRUE,
                          !.lastStep = "logout",
                          !.auth = Logout,
                          !.opened = FALSE]
    /\ store' = [store EXCEPT !.currentUser = Absent]
    /\ StorageUnchanged
    /\ UNCHANGED <<listing, signup>>

\* The effect, run after the render that mounted the component or changed
\* currentUser.  A setCurrentUser makes it run once more.
runEffect ==
    LET parts == filterBoolean(split(app.pathname, <<>>))
        found == resolve(parts[1], students, teachers, heap)
    IN /\ app.pending
       /\ IF Len(parts) >= 2 /\ parts[2] = Dashboard
          THEN IF app.currentUser # Null /\ app.currentUser.id = parts[1]
               THEN app' = [app EXCEPT !.pending = FALSE, !.lastStep = "effect"]
               ELSE IF found # Null
               THEN app' = [app EXCEPT !.currentUser = found, !.pending = TRUE,
                                      !.lastStep = "effect", !.origin = "link"]
               ELSE app' = [app EXCEPT !.pending = FALSE, !.lastStep = "effect"]
          ELSE app' = [app EXCEPT !.pending = FALSE, !.lastStep = "effect"]
       /\ store' = store
       /\ StorageUnchanged
       /\ UNCHANGED <<listing, signup>>

\* The collection a page load builds from a slot: the parsed text, or the
\* seed when the slot is absent.
loaded(slot, seed) == IF slot = Absent THEN seed ELSE slot.v

\* A page load at `path`: the modules are evaluated anew (the collections
\* come from the slots) and the component is mounted.  `typed` tells a page
\* opened at an address the user typed from a reload of the current one.
pageLoad(path, typed) ==
    LET s == AllocList(loaded(store.students, DefaultStudents), <<>>)
        t == AllocList(loaded(store.teachers, DefaultTeachers), s.h)
    IN /\ ~app.pending
       /\ CommitStorage(s.v, t.v, t.h, InitCall, store, NoExport)
       /\ app' = [Mounted(path, store) EXCEPT !.auth = app.auth,
                                               !.opened = app.opened \/ typed,
                                               !.lastStep = IF typed THEN "open" ELSE "reload"]
       /\ UNCHANGED <<listing, signup>>

\* The addresses a user types.
OpenPaths ==
    {Root, DashboardPath(I1), DashboardPath(I2), <<Slash>> \o I1 \o <<Slash, "x">>}

AdminData == [id |-> <<"a">>, name |-> N2, email |-> E1]

\* What LoginPage passes to onLogin: a stored student, a stored teacher, or
\* the administrator.
LoginInputs ==
    {<<"student", StudentsView[i]>> : i \in 1..Len(StudentsView)}
        \cup {<<"lecturer", TeachersView[i]>> : i \in 1..Len(TeachersView)}
        \cup {<<"admin", AdminData>>}

\* The record operations that run while a session goes on.
SessionStorageOps ==
    /\ ~app.pending
    /\ \/ createStudent(Base(I2))
       \/ deleteStudent(I1)

NextApp ==
    \/ \E l \in LoginInputs, remember \in BOOLEAN : handleLogin(l[1], l[2], remember)
    \/ handleLogout
    \/ runEffect
    \/ \E path \in OpenPaths : pageLoad(path, TRUE)
    \/ pageLoad(app.pathname, FALSE)
    \/ SessionStorageOps

\* The first page load, at any of the addresses, with empty localStorage.
InitApp ==
    LET s == AllocList(DefaultStudents, <<>>)
        t == AllocList(DefaultTeachers, s.h)
        c == Canon([students |-> s.v, teachers |-> t.v, heap |-> t.h, last |-> InitCall,
                    exported |-> NoExport])
    IN /\ students = c.students
       /\ teachers = c.teachers
       /\ heap = c.heap
       /\ last = c.last
       /\ store = EmptyStore
       /\ focus = "session"
       /\ exported = NoExport
       /\ \E path \in OpenPaths : app = Mounted(path, EmptyStore)
       /\ listing = ListView(DefaultStudents)
       /\ signup = SignupForm

SpecApp == InitApp /\ [][NextApp]_vars

----------------------------------------------------------------------------
(* StudentsListView.jsx: the dialog that creates and edits a student *)

RequiredMessage == "ID, Name, and Email are required"
CreatedMessage == "created successfully"
DeletedMessage == "deleted successfully"

UniversityDomain ==
    <<"@", "u", "n", "i", "v", "e", "r", "s", "i", "t", "y", ".", "e", "d", "u">>

\* String.prototype.replace(/\s+/g, "."): each run of spaces becomes a dot.
RECURSIVE dotSpaces(_, _)
dotSpaces(str, inRun) ==
    IF str = <<>> THEN <<>>
    ELSE IF Head(str) = " "
    THEN (IF inRun THEN <<>> ELSE <<".">>) \o dotSpaces(Tail(str), TRUE)
    ELSE <<Head(str)>> \o dotSpaces(Tail(str), FALSE)

generateEmail(id, name) ==
    IF id = EmptyStr \/ name = EmptyStr THEN EmptyStr
    ELSE dotSpaces(toLowerCase(name), FALSE) \o <<".">> \o SliceLast3(id) \o UniversityDomain

generatePassword(id) ==
    IF id = EmptyStr THEN EmptyStr ELSE StudentPrefix \o SliceLast3(id)

\* editingId: null, or the id of the student being edited.
Editing(id) == [t |-> "id", v |-> id]

\* if (editingId)
EditMode(editingId) == editingId # Null /\ editingId.v # EmptyStr

\* What a call of storage.js leaves when a handler makes it in the middle
\* of its run: the array, the heap, the slots, and its result.
Outcome(s, h, st, ret) == [students |-> s, heap |-> h, store |-> st, ret |-> ret]

\* createStudent(studentData) called with the array s, the heap h and the
\* slots st.
createStudentCall(studentData, s, h, st) ==
    IF MissingRequired(studentData) THEN Outcome(s, h, st, Throw(ValidationError))
    ELSE IF find(s, h, studentData.id) # 0 THEN Outcome(s, h, st, Throw(DuplicateKeyError))
    ELSE LET h1 == Append(h, Rec(newStudent(studentData)))
             saved == saveStudents(Append(s, Len(h1)), h1, st)
             flushed == flushStudents(saved.students, h1, saved.store)
             h2 == Append(h1, Rec(h1[Len(h1)].f))
         IN Outcome(saved.students, h2, flushed, RecRef(Len(h2)))

\* updateStudent(id, updates)
updateStudentCall(id, updates, s, h, st) ==
    LET index == findIndex(s, h, id)
    IN IF index = 0 THEN Outcome(s, h, st, Throw(NotFoundError))
       ELSE LET h1 == Append(h, Rec(mergeUpdates(h[s[index]].f, updates, id)))
                saved == saveStudents([s EXCEPT ![index] = Len(h1)], h1, st)
                flushed == flushStudents(saved.students, h1, saved.store)
                h2 == Append(h1, Rec(h1[saved.students[index]].f))
            IN Outcome(saved.students, h2, flushed, RecRef(Len(h2)))

\* deleteStudent(id)
deleteStudentCall(id, s, h, st) ==
    LET index == findIndex(s, h, id)
    IN IF index = 0 THEN Outcome(s, h, st, Bool(FALSE))
       ELSE LET saved == saveStudents(splice(s, index), h, st)
                flushed == flushStudents(saved.students, h, saved.store)
            IN Outcome(saved.students, h, flushed, Bool(TRUE))

\* The end of a handler: o is what its last call of storage.js left, l the
\* record of that call, and v the component's new state.
ListingStep(o, l, v) ==
    /\ CommitStorage(o.students, teachers, o.heap, l, o.store, exported)
    /\ listing' = v
    /\ UNCHANGED <<app, signup>>

\* setStudents(getStudents()), after the call that left o; v is the
\* component's state but for the list.
Refresh(o, v) ==
    LET m == mapCopy(o.students, o.heap)
    IN ListingStep(Outcome(o.students, m.h, o.store, List(m.v)),
                   Call("getStudents", EmptyStr, EmptyObj, NoImport, List(m.v), FALSE),
                   [v EXCEPT !.students = Serialize(o.students, o.heap)])

\* resetForm(), applied to the state v
resetForm(v) ==
    [v EXCEPT !.formData = BlankStudentForm, !.error = EmptyStr, !.editingId = Null]

handleOpenCreate ==
    /\ ~listing.isCreateOpen
    /\ listing' = [resetForm(listing) EXCEPT !.isCreateOpen = TRUE,
                                             !.lastStep = "handleOpenCreate",
                                             !.calls = <<>>]
    /\ UNCHANGED <<students, teachers, heap, store, last, focus, exported, app, signup>>

\* handleOpenEdit(student) is called by handleEdit and defined nowhere in
\* the file; it is taken to fill the form with the row's student and to
\* set editingId to the student's id.
handleOpenEdit(student) ==
    /\ ~listing.isCreateOpen
    /\ listing' = [listing EXCEPT !.editingId = Editing(student.id),
                                  !.formData = [id |-> student.id, name |-> student.name,
                                                email |-> student.email,
                                                password |-> student.password],
                                  !.error = EmptyStr,
                                  !.isCreateOpen = TRUE,
                                  !.lastStep = "handleOpenEdit",
                                  !.calls = <<>>]
    /\ UNCHANGED <<students, teachers, heap, store, last, focus, exported, app, signup>>

\* The ID input is disabled while editingId is not null.
handleIdChange(newId) ==
    /\ listing.isCreateOpen
    /\ listing.editingId = Null
    /\ listing.formData.id # newId
    /\ listing' = [listing EXCEPT !.formData =
                        [id |-> newId,
                         name |-> listing.formData.name,
                         email |-> generateEmail(newId, listing.formData.name),
                         password |-> generatePassword(newId)],
                                  !.lastStep = "handleIdChange",
                                  !.calls = <<>>]
    /\ UNCHANGED <<students, teachers, heap, store, last, focus, exported, app, signup>>

handleNameChange(newName) ==
    /\ listing.isCreateOpen
    /\ listing.formData.name # newName
    /\ listing' = [listing EXCEPT !.formData =
                        [id |-> listing.formData.id,
                         name |-> newName,
                         email |-> generateEmail(listing.formData.id, newName),
                         password |-> listing.formData.password],
                                  !.lastStep = "handleNameChange",
                                  !.calls = <<>>]
    /\ UNCHANGED <<students, teachers, heap, store, last, focus, exported, app, signup>>

\* The form's submit.  In edit mode it calls updateStudent and then
\* createStudent; an exception of either goes to the catch, which shows its
\* message and skips the refresh.
handleSave ==
    LET fd == listing.formData
        cleared == [listing EXCEPT !.error = EmptyStr, !.success = EmptyStr,
                                   !.lastStep = "handleSave", !.calls = <<>>]
        patch == [name |-> fd.name, email |-> fd.email, password |-> fd.password]
        u == updateStudentCall(listing.editingId.v, patch, students, heap, store)
        c == createStudentCall(fd, IF EditMode(listing.editingId) THEN u.students ELSE students,
                               IF EditMode(listing.editingId) THEN u.heap ELSE heap,
                               IF EditMode(listing.editingId) THEN u.store ELSE store)
        closed(v) == resetForm([v EXCEPT !.isCreateOpen = FALSE])
    IN /\ listing.isCreateOpen
       /\ IF Falsy(fd, "id") \/ Falsy(fd, "name") \/ Falsy(fd, "email")
          THEN /\ listing' = [cleared EXCEPT !.error = RequiredMessage]
               /\ UNCHANGED <<students, teachers, heap, store, last, focus, exported,
                              app, signup>>
          ELSE IF EditMode(listing.editingId)
          THEN IF u.ret.t = "throw"
               THEN ListingStep(u, Call("updateStudent", listing.editingId.v, patch,
                                        NoImport, u.ret, FALSE),
                                [cleared EXCEPT !.error = u.ret.e,
                                                !.calls = <<"updateStudent">>])
               ELSE IF c.ret.t = "throw"
               THEN ListingStep(c, Call("createStudent", EmptyStr, fd, NoImport, c.ret, FALSE),
                                [cleared EXCEPT !.error = c.ret.e,
                                                !.calls = <<"updateStudent", "createStudent">>])
               ELSE /\ Len(students) < MaxRecs
                    /\ Refresh(c, closed([cleared EXCEPT !.calls =
                                    <<"updateStudent", "createStudent", "getStudents">>]))
          ELSE IF c.ret.t = "throw"
               THEN ListingStep(c, Call("createStudent", EmptyStr, fd, NoImport, c.ret, FALSE),
                                [cleared EXCEPT !.error = c.ret.e,
                                                !.calls = <<"createStudent">>])
               ELSE /\ Len(students) < MaxRecs
                    /\ Refresh(c, closed([cleared EXCEPT !.success = CreatedMessage,
                                          !.calls = <<"createStudent", "getStudents">>]))

\* The row's Delete button, with the confirmation accepted.
handleDelete(id) ==
    /\ ~listing.isCreateOpen
    /\ Refresh(deleteStudentCall(id, students, heap, store),
               [listing EXCEPT !.success = DeletedMessage, !.lastStep = "handleDelete",
                               !.calls = <<"deleteStudent", "getStudents">>])

\* The Cancel button: setIsCreateOpen(false)
cancelDialog ==
    /\ listing.isCreateOpen
    /\ listing' = [listing EXCEPT !.isCreateOpen = FALSE, !.lastStep = "cancel",
                                  !.calls = <<>>]
    /\ UNCHANGED <<students, teachers, heap, store, last, focus, exported, app, signup>>

\* The ids and names typed into the form.
TypedIds == {I1, I2}
TypedNames == {EmptyStr, N1, N2}

\* The rows on display.
Rows == {listing.students[i] : i \in 1..Len(listing.students)}

NextListing ==
    \/ handleOpenCreate
    \/ \E student \in Rows : handleOpenEdit(student)
    \/ \E newId \in TypedIds : handleIdChange(newId)
    \/ \E newName \in TypedNames : handleNameChange(newName)
    \/ handleSave
    \/ \E student \in Rows : handleDelete(student.id)
    \/ cancelDialog

\* The component's first render, after a page load with empty localStorage.
InitListing ==
    LET s == AllocList(DefaultStudents, <<>>)
        t == AllocList(DefaultTeachers, s.h)
        c == Canon([students |-> s.v, teachers |-> t.v, heap |-> t.h, last |-> InitCall,
                    exported |-> NoExport])
    IN /\ students = c.students
       /\ teachers = c.teachers
       /\ heap = c.heap
       /\ last = c.last
       /\ store = EmptyStore
       /\ focus = "listing"
       /\ exported = NoExport
       /\ app = Mounted(Root, EmptyStore)
       /\ listing = ListView(DefaultStudents)
       /\ signup = SignupForm

SpecListing == InitListing /\ [][NextListing]_vars

----------------------------------------------------------------------------
(* SignupForm (src/unnamed/part_000) *)

Space == " "
Digits == {"0", "1", "2", "3", "4", "5", "6", "7", "8", "9"}

\* String.prototype.trim, for strings whose only white space is the space.
RECURSIVE trimStart(_)
trimStart(str) ==
    IF str # <<>> /\ Head(str) = Space THEN trimStart(Tail(str)) ELSE str

RECURSIVE trimEnd(_)
trimEnd(str) ==
    IF str # <<>> /\ str[Len(str)] = Space
    THEN trimEnd(SubSeq(str, 1, Len(str) - 1))
    ELSE str

trim(str) == trimEnd(trimStart(str))

\* str.replace(/\D/g, "")
digitsOnly(str) == SelectSeq(str, LAMBDA c : c \in Digits)

DigitValue(c) ==
    CASE c = "0" -> 0 [] c = "1" -> 1 [] c = "2" -> 2 [] c = "3" -> 3 [] c = "4" -> 4
      [] c = "5" -> 5 [] c = "6" -> 6 [] c = "7" -> 7 [] c = "8" -> 8 [] c = "9" -> 9

\* The number a string of digits denotes (Number and parseInt agree on it).
RECURSIVE NumberOf(_)
NumberOf(str) ==
    IF str = <<>> THEN 0
    ELSE 10 * NumberOf(SubSeq(str, 1, Len(str) - 1)) + DigitValue(str[Len(str)])

\* isNaN(str), for a non-empty string of digits and letters.
isNaN(str) == \E i \in 1..Len(str) : str[i] \notin Digits

\* /^[^\s@]+@[^\s@]+\.[^\s@]+$/.test(str)
EmailFormat(str) ==
    /\ \A i \in 1..Len(str) : str[i] # Space
    /\ \E k \in 2..Len(str) :
          /\ str[k] = "@"
          /\ \A i \in 1..Len(str) : str[i] = "@" => i = k
          /\ \E j \in (k + 2)..(Len(str) - 1) : str[j] = "."

MinAge == 5
MaxAge == 120
MinPassword == 6
PhoneDigits == 10

\* The message validateForm sets for a field; the empty string for none.
FieldError(fd, field) ==
    CASE field = "firstName" ->
            IF trim(fd.firstName) = EmptyStr THEN "First name is required" ELSE ""
      [] field = "lastName" ->
            IF trim(fd.lastName) = EmptyStr THEN "Last name is required" ELSE ""
      [] field = "age" ->
            IF \/ fd.age = EmptyStr
               \/ isNaN(fd.age)
               \/ NumberOf(fd.age) < MinAge
               \/ NumberOf(fd.age) > MaxAge
            THEN "Age must be between 5 and 120" ELSE ""
      [] field = "phoneNumber" ->
            IF trim(fd.phoneNumber) = EmptyStr THEN "Phone number is required"
            ELSE IF Len(digitsOnly(fd.phoneNumber)) # PhoneDigits
            THEN "Phone number must be 10 digits" ELSE ""
      [] field = "gender" ->
            IF fd.gender = EmptyStr THEN "Gender is required" ELSE ""
      [] field = "email" ->
            IF trim(fd.email) = EmptyStr THEN "Email is required"
            ELSE IF ~EmailFormat(fd.email) THEN "Invalid email format" ELSE ""
      [] field = "password" ->
            IF fd.password = EmptyStr THEN "Password is required"
            ELSE IF Len(fd.password) < MinPassword
            THEN "Password must be at least 6 characters" ELSE ""
      [] field = "confirmPassword" ->
            IF fd.password # fd.confirmPassword THEN "Passwords do not match" ELSE ""

\* validateForm's newErrors: the fields with a message.
validateForm(fd) ==
    [field \in {f \in DOMAIN BlankSignupForm : FieldError(fd, f) # ""} |->
        FieldError(fd, field)]

\* The check that looks at no stored account.
emailTaken_never(users, email) == FALSE

\* users.some(u => u.email === formData.email)
emailTaken(users, email) == \E i \in 1..Len(users) : users[i].email = email

\* The object literal newUser.
newUser(fd) ==
    [id |-> Stamp,
     firstName |-> fd.firstName,
     lastName |-> fd.lastName,
     fullName |-> fd.firstName \o <<Space>> \o fd.lastName,
     age |-> NumberOf(fd.age),
     phoneNumber |-> fd.phoneNumber,
     gender |-> fd.gender,
     email |-> fd.email,
     password |-> fd.password,
     createdAt |-> Stamp]

\* The parsed "signupUsers" entry, or [] when there is none.
storedUsers(st) == IF st.signupUsers = Absent THEN <<>> ELSE st.signupUsers.v

SignupFrame == UNCHANGED <<students, teachers, heap, last, focus, exported, app, listing>>

\* handleInputChange for the field `name`; handleGenderChange is the same
\* for gender.  The field's message, if it has one, becomes "".  The change
\* event fires when the field's value changes.
handleInputChange(name, value) ==
    /\ signup.formData[name] # value
    /\ signup' = [signup EXCEPT !.formData[name] = value,
                                !.errors = [f \in DOMAIN @ |-> IF f = name THEN "" ELSE @[f]],
                                !.lastStep = "handleInputChange"]
    /\ store' = store
    /\ SignupFrame

handleSubmit ==
    LET fd == signup.formData
        newErrors == validateForm(fd)
        users == storedUsers(store)
    IN /\ IF DOMAIN newErrors # {}
          THEN /\ signup' = [signup EXCEPT !.success = EmptyStr, !.errors = newErrors,
                                           !.lastStep = "handleSubmit"]
               /\ store' = store
          ELSE IF emailTaken(users, fd.email)
          THEN /\ signup' = [signup EXCEPT !.success = EmptyStr,
                                           !.errors = [email |-> "Email already registered"],
                                           !.isLoading = FALSE,
                                           !.lastStep = "handleSubmit"]
               /\ store' = store
          ELSE /\ signup' = [signup EXCEPT !.success = newUser(fd).fullName,
                                           !.errors = newErrors,
                                           !.formData = BlankSignupForm,
                                           !.isLoading = FALSE,
                                           !.lastStep = "handleSubmit"]
               /\ store' = [store EXCEPT !.signupUsers = Saved(Append(users, newUser(fd)))]
       /\ SignupFrame

\* What is typed into each field.
EmailLower == <<"a", "@", "b", ".", "c">>
EmailUpper == <<"A", "@", "b", ".", "c">>
EmailNoDot == <<"a", "@", "b">>
SixChars == <<"s", "e", "c", "r", "e", "t">>
TenDigits == <<"5", "5", "5", "0", "1", "0", "0", "1", "2", "3">>

Typed(name) ==
    CASE name = "firstName" -> {N1}
      [] name = "lastName" -> {N2}
      [] name = "age" -> {<<"2", "0">>}
      [] name = "phoneNumber" -> {TenDigits}
      [] name = "gender" -> {<<"f">>}
      [] name = "email" -> {EmailLower, EmailUpper, EmailNoDot}
      [] name = "password" -> {SixChars}
      [] name = "confirmPassword" -> {SixChars}

\* A form that passes validateForm.
CompleteForm(email) ==
    [firstName |-> N1, lastName |-> N2, age |-> <<"2", "0">>, phoneNumber |-> TenDigits,
     gender |-> <<"f">>, email |-> email, password |-> SixChars,
     confirmPassword |-> SixChars]

\* The "signupUsers" entry at the first render: none, or one an earlier
\* visit left.
SignupEntries == {Absent, Saved(<<>>), Saved(<<newUser(CompleteForm(EmailUpper))>>)}

NextSignup ==
    \/ \E name \in DOMAIN BlankSignupForm : \E value \in Typed(name) :
          handleInputChange(name, value)
    \/ handleSubmit

\* The form's first render.
InitSignup ==
    LET s == AllocList(DefaultStudents, <<>>)
        t == AllocList(DefaultTeachers, s.h)
        c == Canon([students |-> s.v, teachers |-> t.v, heap |-> t.h, last |-> InitCall,
                    exported |-> NoExport])
    IN /\ students = c.students
       /\ teachers = c.teachers
       /\ heap = c.heap
       /\ last = c.last
       /\ \E entry \in SignupEntries : store = [EmptyStore EXCEPT !.signupUsers = entry]
       /\ focus = "signup"
       /\ exported = NoExport
       /\ app = Mounted(Root, EmptyStore)
       /\ listing = ListView(DefaultStudents)
       /\ signup = SignupForm

SpecSignup == InitSignup /\ [][NextSignup]_vars

----------------------------------------------------------------------------
(* Vocabulary of the properties.  A step is a call of the function `op`    *)
(* when it sets last.op to it and clears last.mut; the state before the    *)
(* step is the state at the call, the state after it the state at return.  *)

CreateOps == {"createStudent", "createTeacher"}
UpdateOps == {"updateStudent", "updateTeacher"}
DeleteOps == {"deleteStudent", "deleteTeacher"}
SearchOps == {"searchStudents", "searchTeachers"}
ListOps == {"getStudents", "getTeachers"}
GetOps == {"getStudentById", "getTeacherById"}

StudentFunctions ==
    {"getStudents", "getStudentById", "createStudent", "updateStudent", "deleteStudent",
     "searchStudents"}

\* The collection a function works on, by value.
ViewOf(op) == IF op \in StudentFunctions THEN StudentsView ELSE TeachersView

\* The same collection at the end of the step.
ViewAfter(op) == IF op \in StudentFunctions THEN StudentsView' ELSE TeachersView'

Calls(ops) == last'.op \in ops /\ last'.mut = "none"

IdIn(view, id) == \E i \in 1..Len(view) : view[i].id = id

DistinctIds(view) == \A i, j \in 1..Len(view) : i # j => view[i].id # view[j].id

Lacks(data, p) == p \notin DOMAIN data \/ data[p] = <<>>

Incomplete(data) == Lacks(data, "id") \/ Lacks(data, "name") \/ Lacks(data, "email")

\* C1: in every reachable state no two records of the same collection have
\* the same id.
C1_UniqueIds == DistinctIds(StudentsView) /\ DistinctIds(TeachersView)

\* C2 as stated: create with an id that already exists always fails with the
\* duplicate-key error and leaves the collection unchanged.
C2_DuplicateAlwaysReported ==
    [][(Calls(CreateOps) /\ "id" \in DOMAIN last'.data /\ IdIn(ViewOf(last'.op), last'.data.id))
         => /\ last'.ret = Throw(DuplicateKeyError)
            /\ ViewAfter(last'.op) = ViewOf(last'.op)]_vars

\* C2 amended: create with non-empty name and email and an id that already
\* exists fails with the duplicate-key error; with or without them, the
\* collection is left unchanged.
C2_DuplicateCreate ==
    [][(Calls(CreateOps) /\ "id" \in DOMAIN last'.data /\ IdIn(ViewOf(last'.op), last'.data.id))
         => /\ ~Incomplete(last'.data) => last'.ret = Throw(DuplicateKeyError)
            /\ last'.ret.t = "throw"
            /\ ViewAfter(last'.op) = ViewOf(last'.op)]_vars

\* A create of a complete record whose id is taken was refused, in a
\* collection of two records.
C2_Witness ==
    /\ last.op \in CreateOps
    /\ last.ret = Throw(DuplicateKeyError)
    /\ Len(ViewOf(last.op)) = 2

\* C3: create with id, name or email missing or empty fails with the
\* validation error, also when the id exists, and changes neither the
\* collections nor the durable store.
C3_ValidationFirst ==
    [][(Calls(CreateOps) /\ Incomplete(last'.data))
         => /\ last'.ret = Throw(ValidationError)
            /\ StudentsView' = StudentsView
            /\ TeachersView' = TeachersView
            /\ store' = store]_vars

\* A create with an empty or missing field was refused although its id is
\* the id of a stored record.
C3_Witness ==
    /\ last.op \in CreateOps
    /\ last.ret = Throw(ValidationError)
    /\ "id" \in DOMAIN last.data
    /\ IdIn(ViewOf(last.op), last.data.id)

\* The last three characters of a string (all of it when it is shorter).
LastThree(str) ==
    LET n == IF Len(str) < 3 THEN Len(str) ELSE 3
    IN [i \in 1..n |-> str[Len(str) - n + i]]

DefaultPassword(op, id) ==
    (IF op = "createStudent" THEN StudentPrefix ELSE TeacherPrefix) \o LastThree(id)

FirstIndex(view, id) ==
    CHOOSE i \in 1..Len(view) : view[i].id = id /\ \A j \in 1..(i - 1) : view[j].id # id

\* The record at the address a of the state after the step, by value.
ValueAfter(a) == DeepFields(heap'[a].f, heap')

\* The create step of C4, with the password rule left open: supplied(d)
\* says when d counts as supplying a password.
CreateStores(supplied(_)) ==
    (Calls(CreateOps) /\ ~Incomplete(last'.data) /\ ~IdIn(ViewOf(last'.op), last'.data.id))
      => LET d == last'.data
             v == ViewOf(last'.op)
             w == ViewAfter(last'.op)
         IN /\ last'.ret.t = "rec"
            /\ Len(w) = Len(v) + 1
            /\ SubSeq(w, 1, Len(v)) = v
            /\ w[Len(w)].id = d.id
            /\ w[Len(w)].name = d.name
            /\ w[Len(w)].email = d.email
            /\ w[Len(w)].password =
                 IF supplied(d) THEN d.password ELSE DefaultPassword(last'.op, d.id)
            /\ ValueAfter(last'.ret.a) = w[Len(w)]

\* getById(id) right after a successful create of that id returns the
\* record created.
GetAfterCreate(supplied(_)) ==
    (/\ Calls(GetOps)
     /\ last.op \in CreateOps /\ last.mut = "none" /\ last.ret.t = "rec"
     /\ (last'.op \in StudentFunctions) = (last.op \in StudentFunctions)
     /\ last'.id = last.data.id)
      => /\ last'.ret.t = "rec"
         /\ LET d == last.data
                r == ValueAfter(last'.ret.a)
            IN /\ r.id = d.id /\ r.name = d.name /\ r.email = d.email
               /\ r.password = IF supplied(d) THEN d.password ELSE DefaultPassword(last.op, d.id)

HasPassword(d) == "password" \in DOMAIN d
HasNonEmptyPassword(d) == ~Lacks(d, "password")

\* C4 as stated: a successful create appends the record with the id, name
\* and email given; its password is the one supplied, stored unchanged, or
\* the prefix and the last 3 characters of id when none was supplied; and
\* getById(id) right after returns it.
C4_SuppliedPasswordKept ==
    [][CreateStores(HasPassword) /\ GetAfterCreate(HasPassword)]_vars

\* C4 amended: the same, where a supplied password that is the empty string
\* counts as none supplied (the default is stored in its place).
C4_CreateThenGet ==
    [][CreateStores(HasNonEmptyPassword) /\ GetAfterCreate(HasNonEmptyPassword)]_vars

\* getById has just returned the record that the call before it created,
\* with a default password built from an id of more than 3 characters.
C4_Witness ==
    /\ last.op \in GetOps
    /\ last.ret.t = "rec"
    /\ last.id = I1
    /\ heap[last.ret.a].f.password \in {StudentPrefix \o <<"2", "0", "1">>,
                                         TeacherPrefix \o <<"2", "0", "1">>}
    /\ Len(ViewOf(last.op)) = 2
    /\ ViewOf(last.op)[2].id = I1

\* C5: update(id, patch) on a present id keeps the length, the order and
\* every other record; the record updated keeps its id and every property
\* not in patch, and takes the properties in patch other than id.
C5_UpdateFrame ==
    [][(Calls(UpdateOps) /\ IdIn(ViewOf(last'.op), last'.id))
         => LET v == ViewOf(last'.op)
                w == ViewAfter(last'.op)
                patch == DeepFields(last'.data, heap')
                i == FirstIndex(v, last'.id)
            IN /\ last'.ret.t = "rec"
               /\ Len(w) = Len(v)
               /\ \A j \in 1..Len(v) : j # i => w[j] = v[j]
               /\ w[i].id = v[i].id
               /\ DOMAIN w[i] = DOMAIN v[i] \cup DOMAIN patch
               /\ \A p \in DOMAIN w[i] \ {"id"} :
                     w[i][p] = IF p \in DOMAIN patch THEN patch[p] ELSE v[i][p]
               /\ ValueAfter(last'.ret.a) = w[i]]_vars

\* An update whose patch names another record's id was applied to one of
\* two records.
C5_Witness ==
    /\ last.op \in UpdateOps
    /\ last.ret.t = "rec"
    /\ "id" \in DOMAIN last.data
    /\ last.data.id # last.id
    /\ Len(ViewOf(last.op)) = 2
    /\ IdIn(ViewOf(last.op), last.data.id)

\* C6: update with an id that no record has fails with the not-found error
\* and leaves the collections and the durable store unchanged.
C6_UpdateAbsent ==
    [][(Calls(UpdateOps) /\ ~IdIn(ViewOf(last'.op), last'.id))
         => /\ last'.ret = Throw(NotFoundError)
            /\ StudentsView' = StudentsView
            /\ TeachersView' = TeachersView
            /\ store' = store]_vars

\* An update of an absent id was refused in a collection that is not empty.
C6_Witness ==
    /\ last.op \in UpdateOps
    /\ last.ret = Throw(NotFoundError)
    /\ Len(ViewOf(last.op)) >= 1

\* C7: delete of an absent id returns false and changes nothing; delete of
\* a present id returns true and removes that record alone, keeping the
\* order of the others; a delete right after a successful delete of the
\* same id returns false.
C7_DeleteTwice ==
    [][Calls(DeleteOps)
         => LET v == ViewOf(last'.op)
                w == ViewAfter(last'.op)
            IN /\ IF IdIn(v, last'.id)
                  THEN /\ last'.ret = Bool(TRUE)
                       /\ Len(w) = Len(v) - 1
                       /\ w = splice(v, FirstIndex(v, last'.id))
                  ELSE /\ last'.ret = Bool(FALSE)
                       /\ w = v
               /\ last'.again => last'.ret = Bool(FALSE)]_vars

CollAfter(op) == IF op \in StudentFunctions THEN students' ELSE teachers'

\* C8: search(query) returns, in collection order, exactly the records
\* whose name or email contains the query, both in lower case; search("")
\* returns every record.
C8_SearchExact ==
    [][Calls(SearchOps)
         => LET coll == CollAfter(last'.op)
                q == toLowerCase(last'.id)
                got == last'.ret.v
                Hit(a) == \/ includes(toLowerCase(heap'[a].f.name), q)
                          \/ includes(toLowerCase(heap'[a].f.email), q)
            IN /\ last'.ret.t = "list"
               /\ \A a \in 1..Len(heap') : Occurs(got, a) <=> (Occurs(coll, a) /\ Hit(a))
               /\ \A i, j \in 1..Len(got) :
                     i < j => IndexOf(coll, got[i]) < IndexOf(coll, got[j])
               /\ last'.id = EmptyStr => got = coll]_vars

\* A query that occurs in the id of every record, and in no name or email,
\* found nothing in a collection of two records.
C8_Witness ==
    /\ last.op \in SearchOps
    /\ last.id = <<"0">>
    /\ last.ret = List(<<>>)
    /\ Len(ViewOf(last.op)) = 2
    /\ \A i \in 1..2 : includes(ViewOf(last.op)[i].id, <<"0">>)

\* C9: changing a record returned by search changes no record of the
\* collections.
C9_SearchReturnsCopies ==
    [][(last'.mut # "none" /\ last'.op \in SearchOps)
         => StudentsView' = StudentsView /\ TeachersView' = TeachersView]_vars

\* C10: changing a value returned by list, getById, create or update, or
\* the specialization array passed to createTeacher or updateTeacher,
\* changes no record of the collections.
C10_NoSharedState ==
    [][(last'.mut # "none" /\ last'.op \in ListOps \cup GetOps \cup CreateOps \cup UpdateOps)
         => StudentsView' = StudentsView /\ TeachersView' = TeachersView]_vars

----------------------------------------------------------------------------
(* Export and import *)

\* The export the caller holds, by value.
ExportedValue ==
    [students |-> Serialize(exported.students, heap),
     teachers |-> Serialize(exported.teachers, heap)]

BothViews == [students |-> StudentsView, teachers |-> TeachersView]

ReturnedList == Serialize(last.ret.v, heap)

\* importData's effect on one collection: `entry` is data.students or
\* data.teachers, `key` the collection's name.
ImportReplaces(entry, key) ==
    /\ entry.t = "list" =>
          /\ BothViews'[key] = entry.v
          /\ store'[key] = Saved(entry.v)
    /\ entry = Absent =>
          /\ BothViews'[key] = BothViews[key]
          /\ store'[key] = store[key]

\* C12: importData whose data.students is an array returns normally with
\* the student collection equal to that array, record by record (nothing
\* of the previous collection kept, no record dropped or changed, also when
\* two of them have the same id), and with the "students" slot holding it;
\* getStudents called right after returns those records; the same for
\* data.teachers and getTeachers; a collection whose key is absent is
\* unchanged, and so is its slot.
C12_ImportReplaces ==
    [][/\ (Calls({"importData"}) /\ last'.imp # Null) =>
            /\ last'.ret = Void
            /\ ImportReplaces(last'.imp.students, "students")
            /\ ImportReplaces(last'.imp.teachers, "teachers")
       /\ (last.op = "importData" /\ Calls({"getStudents"}) /\ last.imp # Null
                /\ last.imp.students.t = "list") =>
            ReturnedList' = last.imp.students.v
       /\ (last.op = "importData" /\ Calls({"getTeachers"}) /\ last.imp # Null
                /\ last.imp.teachers.t = "list") =>
            ReturnedList' = last.imp.teachers.v]_vars

\* getTeachers has returned the two imported teachers (both with the same
\* id) in a state where the student collection, absent from the import,
\* is still the seed and its slot still empty.
C12_Witness ==
    /\ last.op = "getTeachers"
    /\ last.mut = "none"
    /\ ReturnedList = ImportedTeachers
    /\ TeachersView = ImportedTeachers
    /\ store.teachers = Saved(ImportedTeachers)
    /\ StudentsView = DefaultStudents
    /\ store.students = Absent

\* C13: an importData whose argument is null, or has a students or teachers
\* entry that is present and not an array, throws the import error and
\* leaves both collections and their slots unchanged.
Malformed(data) ==
    \/ data = Null
    \/ data.students = NotAnArray
    \/ data.teachers = NotAnArray

C13_MalformedRejected ==
    [][(Calls({"importData"}) /\ Malformed(last'.imp)) =>
            /\ last'.ret = Throw(ImportError)
            /\ BothViews' = BothViews
            /\ store' = store]_vars

----------------------------------------------------------------------------
(* Persistence *)

MutationOps == CreateOps \cup UpdateOps \cup DeleteOps

Succeeded(ret) == ret.t = "rec" \/ ret = Bool(TRUE)

SlotOf(op) == IF op \in StudentFunctions THEN "students" ELSE "teachers"

\* C14: every create, update or delete that succeeds, of a student or of a
\* teacher, returns with the collection's slot holding the collection as it
\* is in memory and with the collection's flush forced during the call; a
\* student mutation also leaves students_last_saved set.
C14_FlushOnEveryMutation ==
    [][(Calls(MutationOps) /\ Succeeded(last'.ret)) =>
            /\ store'[SlotOf(last'.op)] = Saved(ViewAfter(last'.op))
            /\ SlotOf(last'.op) \in last'.flushed
            /\ (last'.op \in StudentFunctions => store'.students_last_saved = Stamp)]_vars

----------------------------------------------------------------------------
(* Teachers' specialization *)

IsSequenceValue(x) == DOMAIN x = {"arr"}

\* C17: in every reachable state every teacher record has a specialization
\* and it is an array.
C17_SpecializationIsSequence ==
    \A i \in 1..Len(TeachersView) :
        /\ "specialization" \in DOMAIN TeachersView[i]
        /\ IsSequenceValue(TeachersView[i].specialization)

----------------------------------------------------------------------------
(* The session *)

\* A step of the effect: it was due, and it is the step just taken.
EffectStep == app.pending /\ app'.lastStep = "effect"

LinkIds == {I1, I2}

HasUser(id) == app.currentUser # Null /\ app.currentUser.id = id

StudentSession(r) == [id |-> r.id, name |-> r.name, email |-> r.email, type |-> "student"]

LecturerSession(r) ==
    [id |-> r.id, name |-> r.name, email |-> r.email, type |-> "lecturer",
     specialization |-> r.specialization]

\* C15: when the effect runs with the address /<id>/dashboard and the
\* current user is none or has another id, the current user becomes the
\* student session of the first student with that id if there is one (also
\* when a teacher has the id too), else the lecturer session of the first
\* teacher with that id, with the teacher's specialization, else stays what
\* it was; the "currentUser" entry is not read for it and not written.
C15_Bootstrap ==
    [][\A id \in LinkIds :
          (EffectStep /\ app.pathname = DashboardPath(id) /\ ~HasUser(id)) =>
             /\ IF IdIn(StudentsView, id)
                THEN app'.currentUser =
                        StudentSession(StudentsView[FirstIndex(StudentsView, id)])
                ELSE IF IdIn(TeachersView, id)
                THEN app'.currentUser =
                        LecturerSession(TeachersView[FirstIndex(TeachersView, id)])
                ELSE app'.currentUser = app.currentUser
             /\ store' = store]_vars

\* The effect has set the student session for an id that a student and a
\* teacher both have, in place of the remembered session of another user.
C15_Witness ==
    /\ app.lastStep = "effect"
    /\ app.origin = "link"
    /\ IdIn(StudentsView, I2)
    /\ IdIn(TeachersView, I2)
    /\ app.currentUser = StudentSession(StudentsView[FirstIndex(StudentsView, I2)])
    /\ store.currentUser # Absent
    /\ store.currentUser.v.id = I1

\* The entry names the user: the same id, name, email and type, and the
\* same specialization when the user has one.
Describes(entry, user) ==
    /\ entry.id = user.id
    /\ entry.name = user.name
    /\ entry.email = user.email
    /\ entry.type = user.type
    /\ user.specialization # Undefined =>
          /\ "specialization" \in DOMAIN entry
          /\ entry.specialization = user.specialization

\* C16: in every state reachable from a first page load with no
\* "currentUser" entry, the entry is present only if the most recent of the
\* logins and logouts is a login with remember-me, and it then describes
\* that login's user; it is absent when the most recent one is a logout or
\* a login without remember-me (page loads and the effect leave it alone).
C16_RememberedEntry ==
    /\ store.currentUser # Absent =>
          /\ app.auth.kind = "login"
          /\ app.auth.remember
          /\ Describes(store.currentUser.v, app.auth.user)
    /\ (app.auth.kind = "logout" \/ (app.auth.kind = "login" /\ ~app.auth.remember)) =>
          store.currentUser = Absent

\* The entry still describes the lecturer who logged in with remember-me,
\* while the effect has made another user the current one.
C16_Witness ==
    /\ store.currentUser # Absent
    /\ app.auth.kind = "login"
    /\ app.auth.user.type = "lecturer"
    /\ store.currentUser.v.specialization = [arr |-> <<"M">>]
    /\ app.origin = "link"
    /\ ~app.pending
    /\ app.currentUser.id # store.currentUser.v.id

\* C19: from a logout on, through the runs of the effect and the reloads of
\* the page, until the next login or the next page opened at a typed
\* address: the current user is none, there is no "currentUser" entry, and
\* the address is "/".
C19_StaysLoggedOut ==
    (app.auth.kind = "logout" /\ ~app.opened) =>
        /\ app.currentUser = Null
        /\ store.currentUser = Absent
        /\ app.pathname = Root

\* A session that the effect had made from the address (no login) was
\* ended by a logout, and the effect has run again since.
C19_Witness ==
    /\ app.auth.kind = "logout"
    /\ ~app.opened
    /\ app.origin = "link"
    /\ app.lastStep = "effect"
    /\ ~app.pending
    /\ app.currentUser = Null

----------------------------------------------------------------------------
(* The listing view *)

\* A run of handleSave in edit mode with id, name and email filled in.
SaveInEditMode ==
    /\ listing'.lastStep = "handleSave"
    /\ listing.isCreateOpen
    /\ listing.editingId # Null
    /\ ~Incomplete(listing.formData)

CallsOf(fns) == {i \in 1..Len(listing'.calls) : listing'.calls[i] \in fns}

----------------------------------------------------------------------------
(* The stored accounts *)

Emails(users) == {users[i].email : i \in 1..Len(users)}

DistinctEmails(users) ==
    \A i, j \in 1..Len(users) : users[i].email = users[j].email => i = j

\* A step of handleSubmit.
SubmitStep == signup'.lastStep = "handleSubmit"

CollectionsUnchanged ==
    /\ UNCHANGED <<students, teachers, heap>>
    /\ store'.students = store.students
    /\ store'.teachers = store.teachers

\* handleSubmit appended one account, made of the submitted form.
AppendedOne ==
    /\ Len(storedUsers(store')) = Len(storedUsers(store)) + 1
    /\ SubSeq(storedUsers(store'), 1, Len(storedUsers(store))) = storedUsers(store)
    /\ storedUsers(store')[Len(storedUsers(store'))].email = signup.formData.email
    /\ signup'.success # EmptyStr

RejectedWithEmailError ==
    /\ "email" \in DOMAIN signup'.errors
    /\ signup'.errors.email # ""
    /\ store'.signupUsers = store.signupUsers

\* C20: the stored accounts have distinct emails at every moment; a
\* submission that passes the form's validation and whose email is already
\* registered ends with the message "Email already registered" under email
\* and leaves signupUsers as it was; a submission that passes validation
\* with an unregistered email appends exactly one account, carrying that
\* email; every other submission leaves signupUsers as it was; and no
\* submission changes the students or teachers collections or their slots.
C20_UniqueEmails ==
    /\ [](DistinctEmails(storedUsers(store)))
    /\ [][SubmitStep =>
            /\ CollectionsUnchanged
            /\ IF DOMAIN validateForm(signup.formData) # {}
               THEN store'.signupUsers = store.signupUsers
               ELSE IF signup.formData.email \in Emails(storedUsers(store))
               THEN /\ RejectedWithEmailError
                    /\ signup'.errors = [email |-> "Email already registered"]
               ELSE AppendedOne]_vars

\* Two accounts are stored and a third submission, with a registered email,
\* has just been rejected.
C20_Witness ==
    /\ signup.lastStep = "handleSubmit"
    /\ signup.errors = [email |-> "Email already registered"]
    /\ Emails(storedUsers(store)) = {EmailLower, EmailUpper}
    /\ signup.formData.email \in Emails(storedUsers(store))

\* C20 as stated: every submission whose email is already registered,
\* whatever else the form holds, is rejected with an email error and
\* leaves signupUsers unchanged.
C20_AsStated ==
    [][SubmitStep /\ signup.formData.email \in Emails(storedUsers(store))
          => RejectedWithEmailError]_vars
====
